---- MODULE Spec2Model ----
(***************************************************************************)
(* Staffly: role-based user management (Django).                           *)
(*                                                                         *)
(* The state is the Identity Store (the accounts_user table), the session  *)
(* store (one session per client), the clock, the authentication backend   *)
(* the settings select, and the response of the last request.  One action  *)
(* is one HTTP request carried through the middleware, the view decorator  *)
(* and the view, as the request/response cycle of the application does.    *)
(***************************************************************************)
EXTENDS Integers, FiniteSets, Sequences, TLC

\* ------------------------------------------------------------------ bounds
MaxUsers == 2      \* primary keys 1..MaxUsers are ever handed out
NumClients == 2    \* browsers, each with its own session cookie
MaxNow == 70       \* the clock (minutes) stops at MaxNow
MaxDirectory == 12 \* rows of the directory the list view is asked about
MaxRedirects == 4  \* redirects a browser follows before it gives up

\* ------------------------------------------------------- program constants
OneHour == 60      \* timedelta(hours=1), in minutes

Anonymous == 0     \* request.user of a request with no valid session
None == -1         \* last_login = NULL

Ids == 1..MaxUsers
Clients == 1..NumClients
Roles == {"ADMIN", "STAFF", "USER"}
\* A str is the sequence of its characters.
Ann == <<"A", "n", "n">>
Names == {<<>>, Ann}
Methods == {"GET", "POST"}
Backends == {"ModelBackend", "AllowAllUsersModelBackend"}

VARIABLES
    users,      \* pk -> row of accounts_user (exists = FALSE: no such row)
    nextPk,     \* the next primary key the table hands out
    session,    \* client -> pk stored in its session (_auth_user_id), or Anonymous
    now,        \* timezone.now(), in minutes
    backend,    \* the authentication backend of the settings
    last,       \* the last request and its response
    inflight    \* client -> the request a worker is in the middle of, if any

vars == <<users, nextPk, session, now, backend, last, inflight>>

\* ------------------------------------------------------------------- text
LowerCase == <<"a", "b", "c", "d", "e", "f", "g", "h", "i", "j", "k", "l", "m",
               "n", "o", "p", "q", "r", "s", "t", "u", "v", "w", "x", "y", "z">>
UpperCase == <<"A", "B", "C", "D", "E", "F", "G", "H", "I", "J", "K", "L", "M",
               "N", "O", "P", "Q", "R", "S", "T", "U", "V", "W", "X", "Y", "Z">>

\* str.lower(), character by character.
lower(text) ==
    [i \in 1..Len(text) |->
        IF \E k \in 1..Len(UpperCase) : UpperCase[k] = text[i]
        THEN LowerCase[CHOOSE k \in 1..Len(UpperCase) : UpperCase[k] = text[i]]
        ELSE text[i]]

\* `term in text`.
contains(text, term) ==
    \E i \in 0..(Len(text) - Len(term)) : \A j \in 1..Len(term) : text[i + j] = term[j]

\* The __icontains lookup (SQLite: LIKE '%term%', which folds ASCII case).
icontains(text, term) == contains(lower(text), lower(term))

\* The address the bootstrap gives the account of key pk.
EmailOf(pk) == <<LowerCase[pk], "@", "x">>

\* ------------------------------------------------------------------- rows
NoRow ==
    [exists |-> FALSE, email |-> <<>>, first_name |-> <<>>, last_name |-> <<>>,
     department |-> <<>>, role |-> "USER", is_active |-> FALSE, is_staff |-> FALSE,
     is_superuser |-> FALSE, date_joined |-> 0, last_login |-> None, updated_at |-> 0]

\* A new User(): the defaults of the model's fields (date_joined defaults to
\* timezone.now; updated_at is auto_now, stamped by save()).
User ==
    [exists |-> TRUE, email |-> <<>>, first_name |-> <<>>, last_name |-> <<>>,
     department |-> <<>>, role |-> "USER", is_active |-> TRUE, is_staff |-> FALSE,
     is_superuser |-> FALSE, date_joined |-> now, last_login |-> None, updated_at |-> now]

\* Model.save(): every field of the instance is written, updated_at
\* (auto_now) as the time of the save.
save(instance) == [instance EXCEPT !.updated_at = now]

\* **extra_fields: a record of the fields the caller names, and no others.
NoFields == <<>>

\* dict.setdefault.
setdefault(fields, key, value) ==
    [k \in DOMAIN fields \cup {key} |-> IF k \in DOMAIN fields THEN fields[k] ELSE value]

\* The exception a manager method raises instead of returning an instance.
ValueError == [exists |-> FALSE, raised |-> "ValueError"]

\* BaseUserManager.normalize_email: the part after the last "@" in lower
\* case, the part before it as given; an address without "@" as given.
normalize_email(email) ==
    IF \E i \in 1..Len(email) : email[i] = "@"
    THEN LET at == CHOOSE i \in 1..Len(email) :
                       email[i] = "@" /\ \A j \in (i + 1)..Len(email) : email[j] # "@"
         IN SubSeq(email, 1, at) \o lower(SubSeq(email, at + 1, Len(email)))
    ELSE email

\* A constructor that drops the extra fields.
model_of_defaults(email, extra_fields) ==
    [f \in DOMAIN User |-> IF f = "email" THEN email ELSE User[f]]

\* self.model(email=email, **extra_fields): the defaults, with the named
\* fields as given.
model(email, extra_fields) ==
    [f \in DOMAIN User |->
        IF f = "email" THEN email
        ELSE IF f \in DOMAIN extra_fields THEN extra_fields[f]
        ELSE User[f]]

\* UserManager.create_user: the instance it saves, or ValueError.
create_user(email, extra_fields) ==
    IF email = <<>> THEN ValueError
    ELSE LET with_role == setdefault(extra_fields, "role", "USER")
             with_active == setdefault(with_role, "is_active", TRUE)
         IN save(model(normalize_email(email), with_active))

\* UserManager.create_superuser: the instance it saves, or ValueError.
create_superuser(email, extra_fields) ==
    LET with_role == setdefault(extra_fields, "role", "ADMIN")
        with_active == setdefault(with_role, "is_active", TRUE)
        with_staff == setdefault(with_active, "is_staff", TRUE)
        with_superuser == setdefault(with_staff, "is_superuser", TRUE)
    IN IF with_superuser["is_staff"] # TRUE THEN ValueError
       ELSE IF with_superuser["is_superuser"] # TRUE THEN ValueError
       ELSE create_user(email, with_superuser)

\* The unique index on email (SQLite: compared byte by byte): the key of the
\* row that holds exactly this address, or Anonymous.
get_by_natural_key(us, email) ==
    IF \E pk \in DOMAIN us : us[pk].exists /\ us[pk].email = email
    THEN CHOOSE pk \in DOMAIN us : us[pk].exists /\ us[pk].email = email
    ELSE Anonymous

Exists(us, pk) == pk \in Ids /\ us[pk].exists

\* UserManager.get_admins: the active ADMIN accounts.
get_admins(us) == {u \in Ids : us[u].exists /\ us[u].role = "ADMIN" /\ us[u].is_active}

\* ------------------------------------------------------------------ paths
\* A path is the sequence of its segments: "/accounts/users/3/" is
\* <<"accounts", "users", "3">>; a pattern matches when it is a prefix.
NoNext == <<>>
Absent == <<>>              \* a parameter the query string does not name
Given(value) == <<value>>   \* a parameter the query string gives a value

NoData == [email |-> <<>>, password |-> "", next |-> NoNext, role |-> "", is_active |-> FALSE,
           first_name |-> <<>>, last_name |-> <<>>, department |-> <<>>,
           action |-> "", queryset |-> {},
           GET |-> [search |-> Absent, role |-> Absent, status |-> Absent,
                    ordering |-> Absent, page |-> Absent]]

PathOf(op, pk) ==
    CASE op = "home"               -> <<>>
      [] op = "login"              -> <<"accounts", "login">>
      [] op = "logout"             -> <<"accounts", "logout">>
      [] op = "user_list"          -> <<"accounts", "users">>
      [] op = "user_create"        -> <<"accounts", "users", "create">>
      [] op = "user_detail"        -> <<"accounts", "users", ToString(pk)>>
      [] op = "user_update"        -> <<"accounts", "users", ToString(pk), "edit">>
      [] op = "user_delete"        -> <<"accounts", "users", ToString(pk), "delete">>
      [] op = "user_toggle_status" -> <<"accounts", "users", ToString(pk), "toggle-status">>
      [] op = "profile_view"       -> <<"accounts", "profile">>
      [] op = "profile_update"     -> <<"accounts", "profile", "edit">>
      [] op = "dashboard_router"   -> <<"dashboard">>
      [] op = "admin_dashboard"    -> <<"dashboard", "admin">>
      [] op = "staff_dashboard"    -> <<"dashboard", "staff">>
      [] op = "user_dashboard"     -> <<"dashboard", "user">>
      [] OTHER                     -> <<"admin", "accounts", "user">>

startswith(path, pattern) ==
    /\ Len(pattern) <= Len(path)
    /\ \A i \in 1..Len(pattern) : path[i] = pattern[i]

ADMIN_ONLY_PATTERNS == {<<"users">>, <<"users", "create">>, <<"users", "delete">>, <<"analytics">>}
STAFF_PATTERNS == {<<"staff">>}
PUBLIC_PATTERNS == {<<"accounts", "login">>, <<"accounts", "logout">>, <<"static">>, <<"media">>, <<"admin">>}

\* -------------------------------------------------------------- responses
Render(template) == [code |-> 200, msg |-> "", to |-> template, next |-> NoNext]
Redirect(to, msg) == [code |-> 302, msg |-> msg, to |-> to, next |-> NoNext]
NotFound == [code |-> 404, msg |-> "", to |-> "", next |-> NoNext]
NotAllowed == [code |-> 405, msg |-> "", to |-> "", next |-> NoNext]

\* login_required's answer to an anonymous caller: the login page, with the
\* requested path in ?next=.
redirect_to_login(path) == [code |-> 302, msg |-> "", to |-> "login", next |-> path]

\* What a step of request handling yields: the store, the session of the
\* client, whether the view behind the guard was called, and the response.
Outcome(us, npk, sess, reached, resp) ==
    [us |-> us, npk |-> npk, sess |-> sess, reached |-> reached, resp |-> resp]

\* ------------------------------------------------------------- middleware
\* AuthenticationMiddleware: request.user.  ModelBackend.get_user gives no
\* user for an inactive account; AllowAllUsersModelBackend gives it.
user_can_authenticate(row) == row.is_active \/ backend = "AllowAllUsersModelBackend"

get_user(c) ==
    LET pk == session[c] IN
    IF pk # Anonymous /\ users[pk].exists /\ user_can_authenticate(users[pk])
    THEN pk ELSE Anonymous

\* A throttle that already writes when exactly one hour has passed.
UpdateLastLoginMiddleware_at_the_hour(us, u) ==
    IF u # Anonymous
    THEN IF us[u].last_login # None /\ now - us[u].last_login < OneHour
         THEN us
         ELSE [us EXCEPT ![u].last_login = now]
    ELSE us

\* UpdateLastLoginMiddleware.__call__: the store after the middleware.
UpdateLastLoginMiddleware(us, u) ==
    IF u # Anonymous
    THEN IF us[u].last_login # None
         THEN IF now - us[u].last_login > OneHour
              THEN [us EXCEPT ![u].last_login = now]
              ELSE us
         ELSE [us EXCEPT ![u].last_login = now]
    ELSE us

\* RoleBasedAccessMiddleware.__call__: "pass", or the redirect it answers with.
RoleBasedAccessMiddleware(path, u) ==
    IF \E p \in PUBLIC_PATTERNS : startswith(path, p) THEN "pass"
    ELSE IF u = Anonymous THEN "pass"
    ELSE IF /\ \E p \in ADMIN_ONLY_PATTERNS : startswith(path, p)
            /\ users[u].role # "ADMIN"
         THEN "Administrator access required."
    ELSE IF /\ \E p \in STAFF_PATTERNS : startswith(path, p)
            /\ users[u].role \notin {"ADMIN", "STAFF"}
         THEN "Staff access required."
    ELSE "pass"

\* ------------------------------------------------------------- decorators
\* The outcome of a request the guard turns away: nothing is written.
Denied(us, c, resp) == Outcome(us, nextPk, session[c], FALSE, resp)

\* The outcome of a view that only answers.
Answer(us, c, resp) == Outcome(us, nextPk, session[c], TRUE, resp)

login_required(us, c, u, path, view) ==
    IF u # Anonymous THEN view ELSE Denied(us, c, redirect_to_login(path))

role_required(allowed_roles, us, c, u, path, view) ==
    IF u = Anonymous THEN Denied(us, c, redirect_to_login(path))
    ELSE IF us[u].role \in allowed_roles THEN view
    ELSE Denied(us, c, Redirect("dashboard:router", "You do not have permission to access this page."))

\* A guard that lets STAFF pass as well.
admin_required_or_staff(us, c, u, path, view) ==
    IF u = Anonymous THEN Denied(us, c, redirect_to_login(path))
    ELSE IF us[u].role \in {"ADMIN", "STAFF"} THEN view
    ELSE Denied(us, c, Redirect("dashboard:router", "Administrator access required."))

admin_required(us, c, u, path, view) ==
    IF u = Anonymous THEN Denied(us, c, redirect_to_login(path))
    ELSE IF us[u].role = "ADMIN" THEN view
    ELSE Denied(us, c, Redirect("dashboard:router", "Administrator access required."))

\* A guard that only asks for a login.
staff_required_any_role(us, c, u, path, view) ==
    IF u = Anonymous THEN Denied(us, c, redirect_to_login(path)) ELSE view

staff_required(us, c, u, path, view) ==
    IF u = Anonymous THEN Denied(us, c, redirect_to_login(path))
    ELSE IF us[u].role \in {"ADMIN", "STAFF"} THEN view
    ELSE Denied(us, c, Redirect("dashboard:router", "Staff access required."))

anonymous_required(us, c, u, view) ==
    IF u # Anonymous THEN Denied(us, c, Redirect("dashboard:router", "")) ELSE view

require_POST(us, c, method, view) ==
    IF method # "POST" THEN Answer(us, c, NotAllowed) ELSE view

\* ------------------------------------------------------------------ forms
\* Every account's password is "secret": the credential is opaque here.
check_password(row, password) == password = "secret"

\* An authenticate that does not compare the password.
authenticate_any_password(us, email, password) ==
    LET user == get_by_natural_key(us, email) IN
    IF user # Anonymous /\ user_can_authenticate(us[user])
    THEN user ELSE Anonymous

\* django.contrib.auth.authenticate as LoginForm.clean calls it: the account
\* of that email whose password matches and which the backend lets in.
authenticate(us, email, password) ==
    LET user == get_by_natural_key(us, email) IN
    IF /\ user # Anonymous
       /\ check_password(us[user], password)
       /\ user_can_authenticate(us[user])
    THEN user ELSE Anonymous

\* LoginForm.clean: the error it raises, or "" with cleaned_data['user'] set.
LoginForm_clean(us, email, password) ==
    LET user == authenticate(us, email, password) IN
    IF user = Anonymous THEN "Invalid email or password."
    ELSE IF ~us[user].is_active THEN "This account has been deactivated."
    ELSE ""

\* Meta.fields of the two update forms and of the creation form, as far as
\* the row modelled here has them.
\* A profile form that lists role among its fields.
UserUpdateForm_fields_with_role == {"first_name", "last_name", "department", "role"}

UserUpdateForm_fields == {"first_name", "last_name", "department"}
AdminUserUpdateForm_fields ==
    {"email", "first_name", "last_name", "role", "is_active", "department"}
UserCreationForm_fields ==
    {"email", "first_name", "last_name", "role", "department", "is_active"}

\* ModelForm: the instance with the form's fields taken from the payload;
\* a payload entry for any other field is dropped.
construct_instance(row, fields, data) ==
    [f \in DOMAIN row |-> IF f \in fields THEN data[f] ELSE row[f]]

\* ModelForm.is_valid for a form with a role field: role is one of the choices.
role_is_valid(fields, data) == "role" \in fields => data.role \in Roles

\* EmailField (required): something before one "@" and something after it.
email_is_valid(fields, data) ==
    "email" \in fields =>
        /\ Len(data.email) >= 3
        /\ data.email[1] # "@" /\ data.email[Len(data.email)] # "@"
        /\ Cardinality({i \in 1..Len(data.email) : data.email[i] = "@"}) = 1

\* ModelForm.validate_unique for unique=True on email: no other row holds
\* exactly this address.
validate_unique(us, pk, fields, data) ==
    "email" \in fields => get_by_natural_key(us, data.email) \in {Anonymous, pk}

\* ModelForm.is_valid.
is_valid(us, pk, fields, data) ==
    /\ role_is_valid(fields, data)
    /\ email_is_valid(fields, data)
    /\ validate_unique(us, pk, fields, data)

\* ------------------------------------------------------------------ views
\* Each view is the outcome of the decorated view function on the store `us`
\* the middleware left, for client c whose request.user is u.

\* django.contrib.auth.login: the session is bound to the user, and the
\* user_logged_in signal writes last_login.
login(us, user) == [us EXCEPT ![user].last_login = now]

login_view(us, c, u, method, data) ==
    anonymous_required(us, c, u,
        IF method = "POST"
        THEN LET error == LoginForm_clean(us, data.email, data.password)
                 user == authenticate(us, data.email, data.password)
             IN
             IF error = ""
             THEN Outcome(login(us, user), nextPk, user, TRUE,
                          IF data.next # NoNext
                          THEN [code |-> 302, msg |-> "Welcome back", to |-> "url", next |-> data.next]
                          ELSE Redirect("dashboard:router", "Welcome back"))
             ELSE Answer(us, c, [code |-> 200, msg |-> error, to |-> "accounts/login.html", next |-> NoNext])
        ELSE Answer(us, c, Render("accounts/login.html")))

logout_view(us, c, u) ==
    login_required(us, c, u, PathOf("logout", 0),
        Outcome(us, nextPk, Anonymous, TRUE,
                Redirect("accounts:login", "You have been logged out successfully.")))

\* ------------------------------------------------------------ the directory
\* request.GET.get(key, default).
GET_get(GET, key, default) == IF GET[key] = Absent THEN default ELSE GET[key][1]

\* The column a str is compared by: the code of each character.
ord(ch) ==
    IF ch = "@" THEN 64
    ELSE IF \E k \in 1..26 : UpperCase[k] = ch THEN 64 + (CHOOSE k \in 1..26 : UpperCase[k] = ch)
    ELSE IF \E k \in 1..26 : LowerCase[k] = ch THEN 96 + (CHOOSE k \in 1..26 : LowerCase[k] = ch)
    ELSE 0

\* What ORDER BY compares of a row, as a sequence of integers: a time or a
\* key is itself, NULL sorts first, FALSE before TRUE, a str by its codes.
RoleOrder == [ADMIN |-> 1, STAFF |-> 2, USER |-> 3]

SortKey(us, pk, name) ==
    CASE name \in {"pk", "id"} -> <<pk>>
      [] name \in {"date_joined", "last_login", "updated_at"} -> <<us[pk][name]>>
      [] name \in {"is_active", "is_staff", "is_superuser"} -> <<IF us[pk][name] THEN 1 ELSE 0>>
      [] name = "role" -> <<RoleOrder[us[pk].role]>>
      [] OTHER -> [i \in 1..Len(us[pk][name]) |-> ord(us[pk][name][i])]

\* a < b for two such keys.
Less(a, b) ==
    \/ /\ Len(a) < Len(b)
       /\ \A i \in 1..Len(a) : a[i] = b[i]
    \/ \E i \in 1..Len(a) :
          /\ i <= Len(b)
          /\ a[i] < b[i]
          /\ \A j \in 1..(i - 1) : a[j] = b[j]

\* The names order_by resolves: the columns of the model, and pk.
order_by_names == (DOMAIN User \ {"exists"}) \cup {"pk", "id"}

\* str.removeprefix("-") of an ordering: "-" and a name are its two tokens.
removeprefix(ordering) ==
    IF ordering # <<>> /\ ordering[1] = "-" THEN Tail(ordering) ELSE ordering

\* QuerySet.order_by raises FieldError for a name it cannot resolve.
FieldError(ordering) ==
    /\ ordering # <<"?">>
    /\ ~(Len(removeprefix(ordering)) = 1 /\ removeprefix(ordering)[1] \in order_by_names)

\* One more row put into rows already in order: after every row that does
\* not come strictly after it.  A row is <<key, pk>>.
insert(sorted, row, desc) ==
    LET p == Cardinality({j \in 1..Len(sorted) :
                             IF desc THEN ~Less(sorted[j][1], row[1])
                                     ELSE ~Less(row[1], sorted[j][1])})
    IN SubSeq(sorted, 1, p) \o <<row>> \o SubSeq(sorted, p + 1, Len(sorted))

\* The first i rows of the scan that are among `rows`, in order.
RECURSIVE sort(_, _, _, _, _)
sort(us, rows, ordering, scan, i) ==
    IF i = 0 THEN <<>>
    ELSE IF scan[i] \notin rows THEN sort(us, rows, ordering, scan, i - 1)
    ELSE insert(sort(us, rows, ordering, scan, i - 1),
                <<IF ordering = <<"?">> THEN <<>>
                  ELSE SortKey(us, scan[i], removeprefix(ordering)[1]), scan[i]>>,
                ordering[1] = "-")

\* QuerySet.order_by: the keys of `rows` by the named column; rows that
\* compare equal come in the order of the scan of the table.
order_by(us, rows, ordering, scan) ==
    LET sorted == sort(us, rows, ordering, scan, Len(scan))
    IN [i \in 1..Len(sorted) |-> sorted[i][2]]

\* Filters whose search compares case as given.
filter_case_sensitive(us, GET) ==
    LET search == GET_get(GET, "search", <<>>)
        role == GET_get(GET, "role", "")
        status == GET_get(GET, "status", "")
    IN {pk \in DOMAIN us :
           /\ us[pk].exists
           /\ search # <<>> =>
                 \/ contains(us[pk].email, search)
                 \/ contains(us[pk].first_name, search)
                 \/ contains(us[pk].last_name, search)
                 \/ contains(us[pk].department, search)
           /\ role # "" => us[pk].role = role
           /\ status = "active" => us[pk].is_active
           /\ status = "inactive" => ~us[pk].is_active}

\* The filters of user_list: the keys of the rows the queryset selects.
filter(us, GET) ==
    LET search == GET_get(GET, "search", <<>>)
        role == GET_get(GET, "role", "")
        status == GET_get(GET, "status", "")
    IN {pk \in DOMAIN us :
           /\ us[pk].exists
           /\ search # <<>> =>
                 \/ icontains(us[pk].email, search)
                 \/ icontains(us[pk].first_name, search)
                 \/ icontains(us[pk].last_name, search)
                 \/ icontains(us[pk].department, search)
           /\ role # "" => us[pk].role = role
           /\ status = "active" => us[pk].is_active
           /\ status = "inactive" => ~us[pk].is_active}

per_page == 10     \* Paginator(users, 10)

\* Paginator.num_pages (allow_empty_first_page, no orphans).
num_pages(count) == IF count = 0 THEN 1 ELSE (count + per_page - 1) \div per_page

\* Paginator.get_page: a number that is no integer gives page 1, one out of
\* range the last page.
get_page(object_list, page) ==
    LET count == Len(object_list)
        number == IF page = Absent \/ ~page[1].integer THEN 1
                  ELSE IF page[1].n < 1 \/ page[1].n > num_pages(count) THEN num_pages(count)
                  ELSE page[1].n
        bottom == (number - 1) * per_page
        top == IF bottom + per_page >= count THEN count ELSE bottom + per_page
    IN [number |-> number, object_list |-> SubSeq(object_list, bottom + 1, top)]

\* page_obj of user_list for a query string that order_by accepts.
page_obj(us, GET, scan) ==
    get_page(order_by(us, filter(us, GET),
                      GET_get(GET, "ordering", <<"-", "date_joined">>), scan),
             GET.page)

\* The response to an exception no view catches.
ServerError == [code |-> 500, msg |-> "", to |-> "", next |-> NoNext]

user_list(us, c, u, data) ==
    admin_required(us, c, u, PathOf("user_list", 0),
        IF FieldError(GET_get(data.GET, "ordering", <<"-", "date_joined">>))
        THEN Answer(us, c, ServerError)
        ELSE Answer(us, c, Render("accounts/user_list.html")))

user_create(us, c, u, method, data) ==
    admin_required(us, c, u, PathOf("user_create", 0),
        IF method = "POST" /\ is_valid(us, Anonymous, UserCreationForm_fields, data)
        THEN Outcome([us EXCEPT ![nextPk] =
                         save(construct_instance(User, UserCreationForm_fields, data))],
                     nextPk + 1, session[c], TRUE,
                     Redirect("accounts:user_list", "User created successfully."))
        ELSE Answer(us, c, Render("accounts/user_form.html")))

user_detail(us, c, u, pk) ==
    admin_required(us, c, u, PathOf("user_detail", pk),
        IF ~Exists(us, pk) THEN Answer(us, c, NotFound)
        ELSE Answer(us, c, Render("accounts/user_detail.html")))

user_update(us, c, u, pk, method, data) ==
    admin_required(us, c, u, PathOf("user_update", pk),
        IF ~Exists(us, pk) THEN Answer(us, c, NotFound)
        ELSE IF method = "POST" /\ is_valid(us, pk, AdminUserUpdateForm_fields, data)
        THEN Outcome([us EXCEPT ![pk] =
                         save(construct_instance(us[pk], AdminUserUpdateForm_fields, data))],
                     nextPk, session[c], TRUE,
                     Redirect("accounts:user_list", "User updated successfully."))
        ELSE Answer(us, c, Render("accounts/user_form.html")))

\* A delete without the test for the own account.
user_delete_unguarded(us, c, u, pk, method) ==
    admin_required(us, c, u, PathOf("user_delete", pk),
        require_POST(us, c, method,
            IF ~Exists(us, pk) THEN Answer(us, c, NotFound)
            ELSE Outcome([us EXCEPT ![pk] = NoRow], nextPk, session[c], TRUE,
                         Redirect("accounts:user_list", "User deleted successfully."))))

user_delete(us, c, u, pk, method) ==
    admin_required(us, c, u, PathOf("user_delete", pk),
        require_POST(us, c, method,
            IF ~Exists(us, pk) THEN Answer(us, c, NotFound)
            ELSE IF pk = u
            THEN Answer(us, c, Redirect("accounts:user_list", "You cannot delete your own account."))
            ELSE Outcome([us EXCEPT ![pk] = NoRow], nextPk, session[c], TRUE,
                         Redirect("accounts:user_list", "User deleted successfully."))))

\* A toggle without the test for the own account.
user_toggle_status_unguarded(us, c, u, pk, method) ==
    admin_required(us, c, u, PathOf("user_toggle_status", pk),
        require_POST(us, c, method,
            IF ~Exists(us, pk) THEN Answer(us, c, NotFound)
            ELSE Outcome([us EXCEPT ![pk] = save([us[pk] EXCEPT !.is_active = ~us[pk].is_active])],
                         nextPk, session[c], TRUE,
                         Redirect("accounts:user_list",
                                  IF ~us[pk].is_active THEN "User has been activated."
                                  ELSE "User has been deactivated."))))

user_toggle_status(us, c, u, pk, method) ==
    admin_required(us, c, u, PathOf("user_toggle_status", pk),
        require_POST(us, c, method,
            IF ~Exists(us, pk) THEN Answer(us, c, NotFound)
            ELSE IF pk = u
            THEN Answer(us, c, Redirect("accounts:user_list", "You cannot deactivate your own account."))
            ELSE Outcome([us EXCEPT ![pk] = save([us[pk] EXCEPT !.is_active = ~us[pk].is_active])],
                         nextPk, session[c], TRUE,
                         Redirect("accounts:user_list",
                                  IF ~us[pk].is_active THEN "User has been activated."
                                  ELSE "User has been deactivated."))))

profile_view(us, c, u) ==
    login_required(us, c, u, PathOf("profile_view", 0),
        Answer(us, c, Render("accounts/profile.html")))

profile_update(us, c, u, method, data) ==
    login_required(us, c, u, PathOf("profile_update", 0),
        IF method = "POST"
        THEN Outcome([us EXCEPT ![u] = save(construct_instance(us[u], UserUpdateForm_fields, data))],
                     nextPk, session[c], TRUE,
                     Redirect("accounts:profile", "Your profile has been updated successfully."))
        ELSE Answer(us, c, Render("accounts/profile_edit.html")))

\* dashboard/urls.py: the routes the router redirects to.
dashboard_urls == {"dashboard:router", "dashboard:admin", "dashboard:staff", "dashboard:user"}

\* A router that sends every role but ADMIN to the staff dashboard.
dashboard_router_staff_for_all(us, c, u) ==
    login_required(us, c, u, PathOf("dashboard_router", 0),
        IF us[u].role = "ADMIN" THEN Answer(us, c, Redirect("dashboard:admin", ""))
        ELSE Answer(us, c, Redirect("dashboard:staff", "")))

\* A router that knows ADMIN only.
dashboard_router_admin_or_user(us, c, u) ==
    login_required(us, c, u, PathOf("dashboard_router", 0),
        IF us[u].role = "ADMIN" THEN Answer(us, c, Redirect("dashboard:admin", ""))
        ELSE Answer(us, c, Redirect("dashboard:user", "")))

dashboard_router(us, c, u) ==
    login_required(us, c, u, PathOf("dashboard_router", 0),
        IF us[u].role = "ADMIN" THEN Answer(us, c, Redirect("dashboard:admin", ""))
        ELSE IF us[u].role = "STAFF" THEN Answer(us, c, Redirect("dashboard:staff", ""))
        ELSE Answer(us, c, Redirect("dashboard:user", "")))

admin_dashboard(us, c, u) ==
    admin_required(us, c, u, PathOf("admin_dashboard", 0),
        Answer(us, c, Render("dashboard/admin_dashboard.html")))

staff_dashboard(us, c, u) ==
    staff_required(us, c, u, PathOf("staff_dashboard", 0),
        Answer(us, c, Render("dashboard/staff_dashboard.html")))

user_dashboard(us, c, u) ==
    login_required(us, c, u, PathOf("user_dashboard", 0),
        Answer(us, c, Render("dashboard/user_dashboard.html")))

home_redirect(us, c, u) ==
    IF u # Anonymous THEN Answer(us, c, Redirect("dashboard:router", ""))
    ELSE Answer(us, c, Redirect("accounts:login", ""))

\* ------------------------------------------------------------- admin site
\* The four actions of UserAdmin: the store after queryset.update(...).
activate_users(us, u, queryset) ==
    [pk \in DOMAIN us |-> IF pk \in queryset THEN [us[pk] EXCEPT !.is_active = TRUE] ELSE us[pk]]

deactivate_users(us, u, queryset) ==
    [pk \in DOMAIN us |-> IF pk \in queryset \ {u} THEN [us[pk] EXCEPT !.is_active = FALSE] ELSE us[pk]]

make_staff(us, u, queryset) ==
    [pk \in DOMAIN us |-> IF pk \in queryset THEN [us[pk] EXCEPT !.role = "STAFF"] ELSE us[pk]]

make_regular_user(us, u, queryset) ==
    [pk \in DOMAIN us |-> IF pk \in queryset \ {u} THEN [us[pk] EXCEPT !.role = "USER"] ELSE us[pk]]

UserAdmin_actions == {"activate_users", "deactivate_users", "make_staff", "make_regular_user"}

\* admin.site: the changelist is open to an active staff member who holds
\* the model's permissions, which a superuser does.
has_admin_permission(us, u) ==
    u # Anonymous /\ us[u].is_active /\ us[u].is_staff /\ us[u].is_superuser

admin_action(us, c, u, data) ==
    IF ~has_admin_permission(us, u)
    THEN Denied(us, c, [code |-> 302, msg |-> "", to |-> "admin:login", next |-> PathOf("admin_action", 0)])
    ELSE LET qs == {pk \in data.queryset : us[pk].exists}
             after == CASE data.action = "activate_users"    -> activate_users(us, u, qs)
                        [] data.action = "deactivate_users"  -> deactivate_users(us, u, qs)
                        [] data.action = "make_staff"        -> make_staff(us, u, qs)
                        [] OTHER                             -> make_regular_user(us, u, qs)
         IN Outcome(after, nextPk, session[c], TRUE,
                    [code |-> 302, msg |-> data.action, to |-> "admin:accounts_user_changelist", next |-> NoNext])

\* ---------------------------------------------------------------- request
View(us, c, u, op, pk, method, data) ==
    CASE op = "home"               -> home_redirect(us, c, u)
      [] op = "login"              -> login_view(us, c, u, method, data)
      [] op = "logout"             -> logout_view(us, c, u)
      [] op = "user_list"          -> user_list(us, c, u, data)
      [] op = "user_create"        -> user_create(us, c, u, method, data)
      [] op = "user_detail"        -> user_detail(us, c, u, pk)
      [] op = "user_update"        -> user_update(us, c, u, pk, method, data)
      [] op = "user_delete"        -> user_delete(us, c, u, pk, method)
      [] op = "user_toggle_status" -> user_toggle_status(us, c, u, pk, method)
      [] op = "profile_view"       -> profile_view(us, c, u)
      [] op = "profile_update"     -> profile_update(us, c, u, method, data)
      [] op = "dashboard_router"   -> dashboard_router(us, c, u)
      [] op = "admin_dashboard"    -> admin_dashboard(us, c, u)
      [] op = "staff_dashboard"    -> staff_dashboard(us, c, u)
      [] op = "user_dashboard"     -> user_dashboard(us, c, u)
      [] OTHER                     -> admin_action(us, c, u, data)

\* The middleware the settings install around every view, after Django's own
\* (sessions, authentication, messages).
MIDDLEWARE == {"RoleBasedAccessMiddleware", "UpdateLastLoginMiddleware"}

\* One request through the middleware and the view.
Handle(c, op, pk, method, data) ==
    LET u == get_user(c)
        us == IF "UpdateLastLoginMiddleware" \in MIDDLEWARE
              THEN UpdateLastLoginMiddleware(users, u) ELSE users
        access == IF "RoleBasedAccessMiddleware" \in MIDDLEWARE
                  THEN RoleBasedAccessMiddleware(PathOf(op, pk), u) ELSE "pass"
    IN IF access # "pass"
       THEN Denied(us, c, Redirect("dashboard:router", access))
       ELSE View(us, c, u, op, pk, method, data)

\* The request as a step: the outcome is computed once and written.
Req(c, op, pk, method, data) ==
    \E o \in {Handle(c, op, pk, method, data)} :
        /\ users' = o.us
        /\ nextPk' = o.npk
        /\ session' = [session EXCEPT ![c] = o.sess]
        /\ last' = [op |-> op, c |-> c, reached |-> o.reached, code |-> o.resp.code, msg |-> o.resp.msg,
                    to |-> o.resp.to, next |-> o.resp.next,
                    GET |-> IF o.reached THEN data.GET ELSE NoData.GET,
                    role |-> IF op = "profile_update" \/ o.npk # nextPk THEN data.role ELSE "",
                    is_active |-> IF op = "profile_update" \/ o.npk # nextPk
                                  THEN data.is_active ELSE FALSE,
                    created |-> IF o.npk # nextPk THEN nextPk ELSE 0,
                    extra_fields |-> NoFields,
                    redirects |-> 0]
        /\ UNCHANGED <<now, backend, inflight>>

\* No request has been answered yet.
NoRequest ==
    [op |-> "", c |-> 0, reached |-> FALSE, code |-> 0, msg |-> "", to |-> "", next |-> NoNext,
     GET |-> NoData.GET, created |-> 0, extra_fields |-> NoFields,
     role |-> "", is_active |-> FALSE, redirects |-> 0]

\* reverse(): the view a route name resolves to.
url_names ==
    {"accounts:login", "login", "accounts:user_list", "accounts:profile",
     "dashboard:router", "dashboard:admin", "dashboard:staff", "dashboard:user"}

reverse(to) ==
    CASE to \in {"accounts:login", "login"} -> "login"
      [] to = "accounts:user_list"          -> "user_list"
      [] to = "accounts:profile"            -> "profile_view"
      [] to = "dashboard:router"            -> "dashboard_router"
      [] to = "dashboard:admin"             -> "admin_dashboard"
      [] to = "dashboard:staff"             -> "staff_dashboard"
      [] OTHER                              -> "user_dashboard"

\* The browser follows the redirect it was answered with: a GET of the
\* Location, with the same session cookie.  It gives up after MaxRedirects.
Follow ==
    /\ last.code = 302
    /\ last.to \in url_names
    /\ last.redirects < MaxRedirects
    /\ \E o \in {Handle(last.c, reverse(last.to), 0, "GET", NoData)} :
          /\ users' = o.us
          /\ nextPk' = o.npk
          /\ session' = [session EXCEPT ![last.c] = o.sess]
          /\ last' = [NoRequest EXCEPT !.op = reverse(last.to), !.c = last.c, !.reached = o.reached,
                                       !.code = o.resp.code, !.msg = o.resp.msg, !.to = o.resp.to,
                                       !.next = o.resp.next, !.redirects = last.redirects + 1]
          /\ UNCHANGED <<now, backend, inflight>>

\* ----------------------------------------------------------------- inputs
Emails == {EmailOf(pk) : pk \in 1..(MaxUsers + 1)}   \* the last one is no account's address
Passwords == {"secret", "wrong"}
NextUrls == {NoNext, PathOf("user_list", 0)}

LoginData == {[NoData EXCEPT !.email = e, !.password = p, !.next = n] :
                 e \in Emails, p \in Passwords, n \in NextUrls}
\* The payload of the two administration forms; the address is the one the
\* action posts it with.
AdminFormData == {[NoData EXCEPT !.role = r, !.is_active = a] :
                     r \in Roles \cup {"BOGUS"}, a \in BOOLEAN}
ProfileData == {[NoData EXCEPT !.first_name = f, !.role = r, !.is_active = a] :
                   f \in Names, r \in Roles, a \in BOOLEAN}
ActionData == {[NoData EXCEPT !.action = x, !.queryset = q] :
                  x \in UserAdmin_actions, q \in (SUBSET Ids) \ {{}}}

\* A form posted with the text fields it was rendered with.
Prefilled(instance, d) ==
    [d EXCEPT !.email = instance.email, !.first_name = instance.first_name,
              !.last_name = instance.last_name, !.department = instance.department]

\* ---------------------------------------------------------------- actions
Home == \E c \in Clients : Req(c, "home", 0, "GET", NoData)

Login == \E c \in Clients, m \in Methods, d \in LoginData : Req(c, "login", 0, m, d)

\* A login that succeeds if the account may log in: the form posted with the
\* account's password and no ?next=.
SignIn ==
    \E c \in Clients, e \in Ids :
        Req(c, "login", 0, "POST", [NoData EXCEPT !.email = users[e].email, !.password = "secret"])

Logout == \E c \in Clients : Req(c, "logout", 0, "GET", NoData)

UserList == \E c \in Clients : Req(c, "user_list", 0, "GET", NoData)

UserCreate ==
    /\ nextPk <= MaxUsers
    /\ \E c \in Clients, m \in Methods, d \in AdminFormData :
          Req(c, "user_create", 0, m, [d EXCEPT !.email = EmailOf(nextPk)])

UserDetail == \E c \in Clients, pk \in Ids : Req(c, "user_detail", pk, "GET", NoData)

UserUpdate ==
    \E c \in Clients, pk \in Ids, m \in Methods, d \in AdminFormData :
        Req(c, "user_update", pk, m, Prefilled(users[pk], d))

UserDelete == \E c \in Clients, pk \in Ids, m \in Methods : Req(c, "user_delete", pk, m, NoData)

UserToggleStatus ==
    \E c \in Clients, pk \in Ids, m \in Methods : Req(c, "user_toggle_status", pk, m, NoData)

ProfileView == \E c \in Clients : Req(c, "profile_view", 0, "GET", NoData)

ProfileUpdate ==
    \E c \in Clients, m \in Methods, d \in ProfileData : Req(c, "profile_update", 0, m, d)

DashboardRouter == \E c \in Clients : Req(c, "dashboard_router", 0, "GET", NoData)

AdminDashboard == \E c \in Clients : Req(c, "admin_dashboard", 0, "GET", NoData)

StaffDashboard == \E c \in Clients : Req(c, "staff_dashboard", 0, "GET", NoData)

UserDashboard == \E c \in Clients : Req(c, "user_dashboard", 0, "GET", NoData)

AdminAction == \E c \in Clients, d \in ActionData : Req(c, "admin_action", 0, "POST", d)

\* Time passes: d minutes.
Tick(d) ==
    /\ now + d <= MaxNow
    /\ now' = now + d
    /\ UNCHANGED <<users, nextPk, session, backend, last, inflight>>


\* ------------------------------------------------- requests in two steps
\* Workers serve requests side by side and nothing locks a row between the
\* query that loads it and the statement that writes it.  A view that loads a
\* row and writes it later is two steps: the first runs the middleware, the
\* guards and the query, the second writes and answers; steps of other
\* requests come in between.

\* No worker holds a request of the client.
Idle == [op |-> "", pk |-> 0, user |-> Anonymous, instance |-> NoRow, data |-> NoData]

\* The worker has passed the guards and holds the instance it loaded; us is
\* the table after the middleware.
Load(c, op, pk, u, us, data) ==
    /\ inflight[c] = Idle
    /\ users' = us
    /\ inflight' = [inflight EXCEPT ![c] =
                        [op |-> op, pk |-> pk, user |-> u, instance |-> us[pk], data |-> data]]
    /\ UNCHANGED <<nextPk, session, now, backend, last>>

\* The worker writes the table and answers.
Write(c, op, us, resp) ==
    /\ inflight[c].op = op
    /\ users' = us
    /\ inflight' = [inflight EXCEPT ![c] = Idle]
    /\ last' = [NoRequest EXCEPT !.op = op, !.c = c, !.reached = TRUE, !.code = resp.code,
                                 !.msg = resp.msg, !.to = resp.to, !.next = resp.next,
                                 !.role = inflight[c].data.role,
                                 !.is_active = inflight[c].data.is_active]
    /\ UNCHANGED <<nextPk, session, now, backend>>

\* user_delete up to the delete: admin_required, require_POST (the request is
\* a POST), get_object_or_404, the test for the own account.
user_delete_load(c, pk) ==
    \E u \in {get_user(c)} :
        \E us \in {UpdateLastLoginMiddleware(users, u)} :
            /\ RoleBasedAccessMiddleware(PathOf("user_delete", pk), u) = "pass"
            /\ u # Anonymous /\ us[u].role = "ADMIN"
            /\ Exists(us, pk)
            /\ pk # u
            /\ Load(c, "user_delete", pk, u, us, NoData)

\* user.delete(): DELETE ... WHERE id = pk.
user_delete_delete(c) ==
    Write(c, "user_delete", [users EXCEPT ![inflight[c].pk] = NoRow],
          Redirect("accounts:user_list", "User deleted successfully."))

\* user_toggle_status up to the save.
user_toggle_status_load(c, pk) ==
    \E u \in {get_user(c)} :
        \E us \in {UpdateLastLoginMiddleware(users, u)} :
            /\ RoleBasedAccessMiddleware(PathOf("user_toggle_status", pk), u) = "pass"
            /\ u # Anonymous /\ us[u].role = "ADMIN"
            /\ Exists(us, pk)
            /\ pk # u
            /\ Load(c, "user_toggle_status", pk, u, us, NoData)

\* user.is_active = not user.is_active; user.save(): every column of the
\* loaded instance is written (and the row inserted if it is gone).
user_toggle_status_save(c) ==
    \E user \in {[inflight[c].instance EXCEPT !.is_active = ~inflight[c].instance.is_active]} :
        Write(c, "user_toggle_status", [users EXCEPT ![inflight[c].pk] = save(user)],
              Redirect("accounts:user_list",
                       IF user.is_active THEN "User has been activated."
                       ELSE "User has been deactivated."))

\* profile_update up to form.save(): login_required, a POST, the form bound
\* to instance = request.user, the row the authentication middleware loaded.
profile_update_load(c, data) ==
    \E u \in {get_user(c)} :
        \E us \in {UpdateLastLoginMiddleware(users, u)} :
            /\ RoleBasedAccessMiddleware(PathOf("profile_update", 0), u) = "pass"
            /\ u # Anonymous
            /\ Load(c, "profile_update", u, u, us, data)

\* form.is_valid() and form.save(): the form's fields are set on the loaded
\* instance and the instance is saved whole.
profile_update_save(c) ==
    Write(c, "profile_update",
          [users EXCEPT ![inflight[c].pk] =
              save(construct_instance(inflight[c].instance, UserUpdateForm_fields, inflight[c].data))],
          Redirect("accounts:profile", "Your profile has been updated successfully."))

\* ------------------------------------------------------------------- Init
\* The rows the table can hold at time 0: pk 1 is the account createsuperuser
\* made, the others were made through user_create; any of them may since have
\* been edited, deactivated or deleted by an administrator, and may have
\* logged in.  No browser holds a session yet.
InitRows(pk) ==
    {NoRow} \cup
    {[(IF pk = 1 THEN create_superuser(EmailOf(pk), NoFields)
                  ELSE create_user(EmailOf(pk), NoFields))
         EXCEPT !.role = r, !.is_active = a, !.last_login = l] :
        r \in Roles, a \in BOOLEAN, l \in {None, 0}}

Init ==
    /\ now = 0
    /\ users \in {f \in [Ids -> UNION {InitRows(pk) : pk \in Ids}] :
                     \A pk \in Ids : f[pk] \in InitRows(pk)}
    /\ nextPk \in {k \in 1..(MaxUsers + 1) : \A pk \in Ids : users[pk].exists => pk < k}
    /\ session = [c \in Clients |-> Anonymous]
    /\ backend \in Backends
    /\ last = NoRequest
    /\ inflight = [c \in Clients |-> Idle]

Next ==
    \/ Home \/ Login \/ Logout
    \/ UserList \/ UserCreate \/ UserDetail \/ UserUpdate \/ UserDelete \/ UserToggleStatus
    \/ ProfileView \/ ProfileUpdate
    \/ DashboardRouter \/ AdminDashboard \/ StaffDashboard \/ UserDashboard
    \/ AdminAction
    \/ Tick(OneHour + 1)

Spec == Init /\ [][Next]_vars

\* The user-management views and a clock that can pass the throttle's hour.
NextManage ==
    \/ SignIn
    \/ UserList \/ UserCreate \/ UserDetail \/ UserUpdate \/ UserDelete \/ UserToggleStatus
    \/ Tick(OneHour + 1)

SpecManage == Init /\ [][NextManage]_vars

\* ----------------------------------------------------------------- claims
UserManagementOps ==
    {"user_list", "user_create", "user_detail", "user_update", "user_delete", "user_toggle_status"}

\* A step is a request of client c for view op: every request stamps `last`,
\* and only the clock's step leaves it alone.
IsRequest(c, op) == now' = now /\ last'.c = c /\ last'.op = op

NotAdmin(c) == get_user(c) = Anonymous \/ users[get_user(c)].role # "ADMIN"

\* C1 (as stated): a user-management request of a requester who is not an
\* ADMIN is denied, the view is not called and the Identity Store is unchanged.
C1_NonAdminLeavesStoreUnchanged ==
    [][\A c \in Clients, op \in UserManagementOps :
          (IsRequest(c, op) /\ NotAdmin(c)) =>
              /\ ~last'.reached
              /\ users' = users]_vars

\* C1 (amended): a user-management request of a requester who is not an ADMIN
\* is denied: the view is not called, the response is a redirect, and the
\* keys, the sessions and every row stay as they are, except that the
\* last-activity throttle may set the requester's own last_login to now.
C1_NonAdminDenied ==
    [][\A c \in Clients, op \in UserManagementOps :
          (IsRequest(c, op) /\ NotAdmin(c)) =>
              /\ ~last'.reached
              /\ last'.code = 302
              /\ last'.to \in {"login", "dashboard:router"}
              /\ nextPk' = nextPk
              /\ session' = session
              /\ \A pk \in Ids :
                    \/ users'[pk] = users[pk]
                    \/ /\ pk = get_user(c)
                       /\ users'[pk] = [users[pk] EXCEPT !.last_login = now]]_vars

\* A STAFF or USER account was turned away from a user-management view.
C1_Witness ==
    /\ last.op \in UserManagementOps
    /\ ~last.reached
    /\ last.msg = "Administrator access required."
    /\ get_user(last.c) # Anonymous
    /\ users[get_user(last.c)].role \in {"STAFF", "USER"}

\* ---------------------------------------------------------------------------
\* The surfaces that change another account: the three views and the four
\* bulk actions of the admin site.
NextMutate == SignIn \/ UserUpdate \/ UserDelete \/ UserToggleStatus \/ AdminAction

SpecMutate == Init /\ [][NextMutate]_vars

MutationOps == {"user_update", "user_delete", "user_toggle_status", "admin_action"}

IsActiveAdmin(u) == u # Anonymous /\ u \in get_admins(users)

\* C2: after a single-target or bulk mutation an active ADMIN issues, the
\* ADMIN's own record still exists, is still active and still has role ADMIN.
C2_ActorKeepsOwnAccount ==
    [][\A c \in Clients, op \in MutationOps :
          (IsRequest(c, op) /\ IsActiveAdmin(get_user(c))) =>
              get_user(c) \in get_admins(users')]_vars

\* C3: user_delete or user_toggle_status posted by an ADMIN against the
\* ADMIN's own id is blocked: an error notice, a redirect to the user list,
\* no row deleted and no active flag changed.
C3_SelfTargetBlocked ==
    [][\A c \in Clients, op \in {"user_delete", "user_toggle_status"} :
          (/\ get_user(c) # Anonymous
           /\ users[get_user(c)].role = "ADMIN"
           /\ Req(c, op, get_user(c), "POST", NoData)) =>
              /\ last'.msg = (IF op = "user_delete"
                              THEN "You cannot delete your own account."
                              ELSE "You cannot deactivate your own account.")
              /\ last'.code = 302
              /\ last'.to = "accounts:user_list"
              /\ \A pk \in Ids : /\ users'[pk].exists = users[pk].exists
                                 /\ users'[pk].is_active = users[pk].is_active]_vars

\* An ADMIN posted a delete of the own account and still has it.
C3_Witness ==
    /\ last.op = "user_delete"
    /\ last.msg = "You cannot delete your own account."
    /\ session[last.c] # Anonymous
    /\ users[session[last.c]].exists
    /\ users[session[last.c]].role = "ADMIN"

\* ---------------------------------------------------------------------------
\* Deletes and status toggles only, each issued by an account that is an
\* active ADMIN when it asks, from a store that holds an active ADMIN.
AdminDelete ==
    \E c \in Clients, pk \in Ids, m \in Methods :
        /\ IsActiveAdmin(get_user(c))
        /\ Req(c, "user_delete", pk, m, NoData)

AdminToggleStatus ==
    \E c \in Clients, pk \in Ids, m \in Methods :
        /\ IsActiveAdmin(get_user(c))
        /\ Req(c, "user_toggle_status", pk, m, NoData)

InitWithAdmin == Init /\ get_admins(users) # {}

NextDeleteToggle == SignIn \/ AdminDelete \/ AdminToggleStatus \/ Tick(OneHour + 1)

SpecDeleteToggle == InitWithAdmin /\ [][NextDeleteToggle]_vars

\* C4: deletes and status toggles by active ADMINs never empty the set of
\* active ADMIN accounts.
C4_ActiveAdminRemains == get_admins(users) # {}

\* An ADMIN deactivated the only other ADMIN: one active ADMIN is left.
C4_Witness ==
    /\ last.op = "user_toggle_status"
    /\ last.msg = "User has been deactivated."
    /\ Cardinality(get_admins(users)) = 1
    /\ \E pk \in Ids : users[pk].exists /\ users[pk].role = "ADMIN" /\ ~users[pk].is_active

\* ---------------------------------------------------------------------------
NextProfile == SignIn \/ ProfileView \/ ProfileUpdate \/ Tick(OneHour + 1)

SpecProfile == Init /\ [][NextProfile]_vars

\* C5: a profile self-update leaves role and is_active of every row, the
\* requester's included, as they were, whatever the payload names.
C5_ProfileUpdateKeepsRoleAndStatus ==
    [][\A c \in Clients :
          IsRequest(c, "profile_update") =>
              \A pk \in Ids : /\ users'[pk].exists = users[pk].exists
                              /\ users'[pk].role = users[pk].role
                              /\ users'[pk].is_active = users[pk].is_active]_vars

\* A profile was saved from a payload that named another role and another
\* active flag than the row has, and the name of the payload was stored.
C5_Witness ==
    /\ last.op = "profile_update"
    /\ last.reached
    /\ last.msg = "Your profile has been updated successfully."
    /\ session[last.c] # Anonymous
    /\ users[session[last.c]].first_name = Ann
    /\ users[session[last.c]].role = "USER"
    /\ last.role = "ADMIN"
    /\ users[session[last.c]].is_active # last.is_active

\* ---------------------------------------------------------------------------
NextLogin == Login \/ Logout

SpecLogin == Init /\ [][NextLogin]_vars

\* The attempt names an existing account, its password, and the account is
\* active.
CredentialsOk(d) ==
    LET user == get_by_natural_key(users, d.email) IN
    /\ user # Anonymous
    /\ check_password(users[user], d.password)
    /\ users[user].is_active

\* C6: a login attempt (the form posted by a client that is not logged in)
\* binds the client's session to the account if and only if the email is an
\* existing account's, the password matches and the account is active; in
\* every other case no session changes.
C6_SessionIffCredentialsOk ==
    [][\A c \in Clients, d \in LoginData :
          (get_user(c) = Anonymous /\ Req(c, "login", 0, "POST", d)) =>
              IF CredentialsOk(d)
              THEN /\ session' = [session EXCEPT ![c] = get_by_natural_key(users, d.email)]
                   /\ session'[c] # session[c]
              ELSE session' = session]_vars

\* A client logged in.
C6_Witness ==
    /\ last.op = "login"
    /\ last.msg = "Welcome back"
    /\ session[last.c] # Anonymous
    /\ users[session[last.c]].is_active

\* C7: a failed login attempt is answered the same way whether the email is
\* unknown, the password is wrong or the account is inactive.
C7_FailuresIndistinguishable ==
    \A c \in Clients, d1 \in LoginData, d2 \in LoginData :
        (get_user(c) = Anonymous /\ ~CredentialsOk(d1) /\ ~CredentialsOk(d2)) =>
            Handle(c, "login", 0, "POST", d1).resp = Handle(c, "login", 0, "POST", d2).resp

\* ---------------------------------------------------------------------------
\* Every view behind a role guard, and the login that follows a redirect.
NextGuards ==
    \/ Login
    \/ UserList \/ UserCreate \/ UserDetail \/ UserUpdate \/ UserDelete \/ UserToggleStatus
    \/ AdminDashboard \/ StaffDashboard

SpecGuards == Init /\ [][NextGuards]_vars

\* The role set each guarded view requires.
RequiredRoles(op) == IF op = "staff_dashboard" THEN {"ADMIN", "STAFF"} ELSE {"ADMIN"}

GuardedOps == UserManagementOps \cup {"admin_dashboard", "staff_dashboard"}

\* What role_required answers for an allowed set and a view that would
\* answer `inner`.
RoleRequiredAsClaimed(allowed, c, inner) ==
    LET u == get_user(c)
        path == PathOf("user_list", 0)
        o == role_required(allowed, users, c, u, path, inner)
    IN IF u = Anonymous
       THEN ~o.reached /\ o.resp.to = "login" /\ o.resp.next = path /\ o.us = users
       ELSE IF users[u].role \in allowed
       THEN o = inner
       ELSE /\ ~o.reached /\ o.resp.code = 302 /\ o.resp.to = "dashboard:router"
            /\ o.resp.msg # "" /\ o.us = users

\* C8: behind role_required, admin_required and staff_required an anonymous
\* caller is redirected to the login page with the requested path in ?next=
\* (and the login redirects there afterwards), an authenticated caller whose
\* role is not required is redirected to the role router with a denial
\* notice, neither reaches the view, and a caller whose role is required does.
C8_GuardsAsClaimed ==
    /\ [](\A allowed \in SUBSET Roles, c \in Clients :
             RoleRequiredAsClaimed(allowed, c, Answer(users, c, Render("inner"))))
    /\ [][\A c \in Clients, op \in GuardedOps :
             IsRequest(c, op) =>
                 IF get_user(c) = Anonymous
                 THEN /\ ~last'.reached
                      /\ last'.code = 302
                      /\ last'.to = "login"
                      /\ \E pk \in Ids : last'.next = PathOf(op, pk)
                      /\ users' = users
                 ELSE IF users[get_user(c)].role \in RequiredRoles(op)
                 THEN last'.reached
                 ELSE /\ ~last'.reached
                      /\ last'.code = 302
                      /\ last'.to = "dashboard:router"
                      /\ last'.msg \in {"Administrator access required.", "Staff access required."}]_vars
    /\ [][\A c \in Clients, d \in LoginData :
             (/\ get_user(c) = Anonymous /\ CredentialsOk(d) /\ d.next # NoNext
              /\ Req(c, "login", 0, "POST", d)) =>
                 last'.code = 302 /\ last'.to = "url" /\ last'.next = d.next]_vars

\* An anonymous caller was sent from the user list to the login page, with
\* the list's path to come back to.
C8_Witness ==
    /\ last.op = "user_list"
    /\ ~last.reached
    /\ last.to = "login"
    /\ last.next = PathOf("user_list", 0)

\* ---------------------------------------------------------------------------
NextDashboard ==
    \/ SignIn \/ Home
    \/ DashboardRouter \/ AdminDashboard \/ StaffDashboard \/ UserDashboard
    \/ Tick(OneHour + 1)

SpecDashboard == Init /\ [][NextDashboard]_vars

\* The destination the claim gives a role.
Destination(role) ==
    IF role = "ADMIN" THEN "dashboard:admin"
    ELSE IF role = "STAFF" THEN "dashboard:staff"
    ELSE "dashboard:user"

\* C9: the role router redirects ADMIN to the admin dashboard, STAFF to the
\* staff dashboard and every other role to the user dashboard, each a route
\* of the dashboard, and the view writes nothing: the store, the keys and the
\* session it hands back are the ones it was given.
C9_RouterIsPure ==
    /\ [](\A c \in Clients :
             get_user(c) # Anonymous =>
                 LET o == dashboard_router(users, c, get_user(c)) IN
                 /\ o.resp.code = 302
                 /\ o.resp.to = Destination(users[get_user(c)].role)
                 /\ o.resp.to \in dashboard_urls
                 /\ o.us = users /\ o.npk = nextPk /\ o.sess = session[c])
    /\ [][\A c \in Clients :
             (IsRequest(c, "dashboard_router") /\ get_user(c) # Anonymous) =>
                 /\ last'.to = Destination(users[get_user(c)].role)
                 /\ session' = session
                 /\ nextPk' = nextPk
                 /\ \A pk \in Ids : users'[pk] = [users[pk] EXCEPT !.last_login = users'[pk].last_login]]_vars

\* The router sent a STAFF account to the staff dashboard.
C9_Witness ==
    /\ last.op = "dashboard_router"
    /\ last.to = "dashboard:staff"
    /\ session[last.c] # Anonymous
    /\ users[session[last.c]].role = "STAFF"

\* ---------------------------------------------------------------------------
\* Requests ten minutes apart, and one 61 minutes after the first.
NextThrottle == SignIn \/ Logout \/ ProfileView \/ Tick(10) \/ Tick(51)

SpecThrottle == Init /\ [][NextThrottle]_vars

\* C10: a request of an authenticated user leaves the user's last_login at
\* now if it was absent or more than one hour old, and as it was otherwise.
C10_LastLoginThrottled ==
    [][\A c \in Clients, op \in {"login", "logout", "profile_view"} :
          (IsRequest(c, op) /\ get_user(c) # Anonymous) =>
              LET u == get_user(c)
                  before == users[u].last_login
              IN users'[u].last_login =
                     IF before = None \/ now - before > OneHour THEN now ELSE before]_vars

\* A request more than an hour after the last write moved last_login to now.
C10_Witness ==
    /\ last.op = "profile_view"
    /\ last.reached
    /\ now > OneHour
    /\ users[session[last.c]].last_login = now

\* ---------------------------------------------------------------------------
\* The directory: a table of up to MaxDirectory accounts, and the list view
\* asked with a query string.
Han == <<"H", "a", "n">>
NANO == <<"N", "A", "N", "O">>

SearchTerms == {Absent, Given(<<>>), Given(<<"a", "N">>), Given(<<"z", "z">>)}
RoleFilters == {Absent, Given(""), Given("STAFF"), Given("BOGUS")}
StatusFilters == {Absent, Given(""), Given("active"), Given("inactive"), Given("bogus")}
Orderings == {Absent, Given(<<>>), Given(<<"-", "date_joined">>), Given(<<"email">>),
              Given(<<"bogus">>)}
PageNumbers == {Absent, Given([integer |-> FALSE, n |-> 0])}
                   \cup {Given([integer |-> TRUE, n |-> k]) : k \in 0..3}

\* Query strings that filter, and query strings that order and page.
FilterQueries ==
    {[NoData.GET EXCEPT !.search = q, !.role = r, !.status = st] :
        q \in SearchTerms, r \in RoleFilters, st \in StatusFilters}
PageQueries ==
    {[NoData.GET EXCEPT !.ordering = o, !.page = pg] : o \in Orderings, pg \in PageNumbers}
\* Query strings that do both.
CombinedQueries ==
    {[search |-> q, role |-> Absent, status |-> st, ordering |-> o,
      page |-> Given([integer |-> TRUE, n |-> 2])] :
        q \in {Given(<<"@">>), Given(<<"a", "N">>)}, st \in {Absent, Given("active")},
        o \in {Absent, Given(<<"email">>)}}

UserListQuery ==
    \E c \in Clients, q \in FilterQueries \cup PageQueries \cup CombinedQueries :
        Req(c, "user_list", 0, "GET", [NoData EXCEPT !.GET = q])

DirectoryIds == 1..MaxDirectory
Populations == 0..1

\* Row pk of a directory of population v: the account of key 1 is the one
\* createsuperuser made, the others came through user_create, with the
\* search term in one of the four text columns in turn, the roles and the
\* active flag in turn; they joined one after the other in key order (even
\* v), or two at a time against it (odd v).
DirectoryRow(pk, v) ==
    LET turn == (pk + v) % 4
        email == IF turn = 3 THEN <<LowerCase[pk], "A", "n", "@", "x">> ELSE EmailOf(pk)
        made == IF pk = 1 THEN create_superuser(email, NoFields)
                ELSE create_user(email, [role |-> <<"ADMIN", "STAFF", "USER">>[((pk + v) % 3) + 1],
                                         is_active |-> (pk + v) % 2 = 0])
    IN [made EXCEPT !.first_name = IF turn = 0 THEN Ann ELSE <<>>,
                    !.last_name = IF turn = 1 THEN Han ELSE <<>>,
                    !.department = IF turn = 2 THEN NANO ELSE <<>>,
                    !.date_joined = IF v % 2 = 0 THEN pk - MaxDirectory - 1 ELSE 0 - (pk \div 2),
                    !.updated_at = 0]

InitDirectory ==
    /\ now = 0
    /\ \E n \in DirectoryIds, v \in Populations :
          /\ users = [pk \in DirectoryIds |-> IF pk <= n THEN DirectoryRow(pk, v) ELSE NoRow]
          /\ nextPk = n + 1
    /\ session = [c \in Clients |-> Anonymous]
    /\ backend \in Backends
    /\ last = NoRequest
    /\ inflight = [c \in Clients |-> Idle]

NextDirectory == SignIn \/ UserListQuery

SpecDirectory == InitDirectory /\ [][NextDirectory]_vars

\* The orders a scan of the table can give rows that the ORDER BY leaves
\* equal: by key, and against it.
TableScans(us) ==
    LET n == Cardinality(DOMAIN us) IN
    {[i \in 1..n |-> i], [i \in 1..n |-> n + 1 - i]}

\* C11: the list view never errors: whatever the query string gives or leaves
\* out for search, role, status, ordering and page, an ADMIN is answered with
\* the page of results, never with an error.
C11_DirectoryNeverErrors ==
    (last.op = "user_list" /\ last.reached) =>
        /\ last.code = 200
        /\ last.to = "accounts/user_list.html"

\* Two characters that are the same letter, whatever their case.
SameLetter(a, b) ==
    \/ a = b
    \/ \E k \in 1..26 : {a, b} = {UpperCase[k], LowerCase[k]}

\* term is a substring of text when case is ignored.
Within(text, term) ==
    \E i \in 0..(Len(text) - Len(term)) :
        \A j \in 1..Len(term) : SameLetter(text[i + j], term[j])

\* The row matches the query as the claim words it: the term, when one is
\* given, is in one of the four text columns; the role, when one is given, is
\* the row's; the status, when it is active or inactive, is the row's.
Matches(row, GET) ==
    /\ row.exists
    /\ GET.search \notin {Absent, Given(<<>>)} =>
          \/ Within(row.email, GET.search[1])
          \/ Within(row.first_name, GET.search[1])
          \/ Within(row.last_name, GET.search[1])
          \/ Within(row.department, GET.search[1])
    /\ GET.role \notin {Absent, Given("")} => row.role = GET.role[1]
    /\ GET.status = Given("active") => row.is_active
    /\ GET.status = Given("inactive") => ~row.is_active

\* The page of number k of the query.
PageOf(us, GET, scan, k) ==
    page_obj(us, [GET EXCEPT !.page = Given([integer |-> TRUE, n |-> k])], scan).object_list

DirectoryAsClaimed(us, GET, scan) ==
    LET matching == {pk \in DOMAIN us : Matches(us[pk], GET)}
        pages == IF matching = {} THEN 1 ELSE (Cardinality(matching) + 9) \div 10
    IN \A book \in {<<page_obj(us, GET, scan), PageOf(us, GET, scan, 1), PageOf(us, GET, scan, pages)>>} :
       LET answer == book[1]
           Page(k) == IF k = 1 THEN book[2] ELSE IF k = pages THEN book[3]
                      ELSE PageOf(us, GET, scan, k)
           Entries == {<<k, i>> : k \in 1..pages, i \in 1..10}
           On(e) == e[2] <= Len(Page(e[1]))
       IN \* the pages hold the matching rows, each once, and nothing else
          /\ \A pk \in matching : Cardinality({e \in Entries : On(e) /\ Page(e[1])[e[2]] = pk}) = 1
          /\ \A e \in Entries : On(e) => Page(e[1])[e[2]] \in matching
          \* ten to a page, but for the last
          /\ \A k \in 1..pages :
                Len(Page(k)) = IF k < pages THEN 10 ELSE Cardinality(matching) - 10 * (pages - 1)
          \* the page asked for is one of them, the only and empty one if nothing matches
          /\ answer.number \in 1..pages
          /\ answer.object_list = Page(answer.number)
          /\ matching = {} => answer.object_list = <<>>
          \* with no ordering named: newest-joined first, page after page
          /\ GET.ordering = Absent =>
                \A e, f \in Entries :
                    (On(e) /\ On(f) /\ (e[1] < f[1] \/ (e[1] = f[1] /\ e[2] < f[2]))) =>
                        us[Page(e[1])[e[2]]].date_joined >= us[Page(f[1])[f[2]]].date_joined

\* C12: the list view returns exactly the rows that match the search term
\* (ignoring case, in email, first name, last name or department), the role
\* filter and the status filter, those that are given; with no ordering named
\* the rows come newest-joined first; they are cut into pages of ten; and
\* when nothing matches the page is empty.  (For every order of scanning
\* the table, and every ordering the view accepts.)
C12_DirectoryReturnsTheMatches ==
    (last.op = "user_list" /\ last.code = 200) =>
        \A scan \in TableScans(users) : DirectoryAsClaimed(users, last.GET, scan)

\* An ADMIN searched a directory of more than ten accounts for "aN" and got
\* some of them, not all.
C12_Witness ==
    /\ last.op = "user_list"
    /\ last.code = 200
    /\ last.GET.search = Given(<<"a", "N">>)
    /\ Cardinality({pk \in DOMAIN users : users[pk].exists}) > per_page
    /\ filter(users, last.GET) # {}
    /\ \E pk \in DOMAIN users : users[pk].exists /\ pk \notin filter(users, last.GET)

\* ---------------------------------------------------------------------------
\* Creation: the two manager methods (the shell, createsuperuser) and the
\* creation form, each with addresses that differ in case only.
CreateEmails == {<<>>, <<"a", "@", "x">>, <<"A", "@", "x">>, <<"a", "@", "X">>}

ExtraFields ==
    {NoFields} \cup {[role |-> r] : r \in Roles}
        \cup {[role |-> "STAFF", is_active |-> FALSE], [is_staff |-> TRUE],
              [is_superuser |-> FALSE], [role |-> "ADMIN", is_active |-> FALSE]}

\* INSERT of the instance a manager method saved: the unique index on email
\* refuses an address a row already holds (IntegrityError), and an exception
\* of the method writes nothing.
Insert(op, instance, extra_fields) ==
    /\ nextPk <= MaxUsers
    /\ IF instance = ValueError \/ get_by_natural_key(users, instance.email) # Anonymous
       THEN /\ UNCHANGED <<users, nextPk>>
            /\ last' = [NoRequest EXCEPT !.op = op, !.code = 500, !.extra_fields = extra_fields]
       ELSE /\ users' = [users EXCEPT ![nextPk] = instance]
            /\ nextPk' = nextPk + 1
            /\ last' = [NoRequest EXCEPT !.op = op, !.reached = TRUE, !.created = nextPk,
                                         !.extra_fields = extra_fields]
    /\ UNCHANGED <<session, now, backend, inflight>>

CreateUser ==
    \E email \in CreateEmails, extra_fields \in ExtraFields :
        Insert("create_user", create_user(email, extra_fields), extra_fields)

CreateSuperuser ==
    \E email \in CreateEmails, extra_fields \in ExtraFields :
        Insert("create_superuser", create_superuser(email, extra_fields), extra_fields)

\* The creation form posted with an address of the administrator's choice.
UserCreateAs ==
    /\ nextPk <= MaxUsers
    /\ \E c \in Clients, d \in AdminFormData, email \in CreateEmails :
          Req(c, "user_create", 0, "POST", [d EXCEPT !.email = email])

\* The edit form posted as it was rendered, but for the address.
UserUpdateAs ==
    \E c \in Clients, pk \in Ids, email \in CreateEmails :
        Req(c, "user_update", pk, "POST",
            [Prefilled(users[pk], NoData) EXCEPT !.email = email, !.role = users[pk].role,
                                                 !.is_active = users[pk].is_active])

NextCreate ==
    SignIn \/ CreateUser \/ CreateSuperuser \/ UserCreateAs \/ UserUpdateAs \/ UserDetail

SpecCreate == Init /\ [][NextCreate]_vars

\* What a creation was told for a field, or the default it has when the
\* creation named none: the form names role and is_active, a manager method
\* names what its extra fields name.
Told(field, default) ==
    IF last.op = "user_create" THEN (IF field \in {"role", "is_active"} THEN last[field] ELSE default)
    ELSE IF field \in DOMAIN last.extra_fields THEN last.extra_fields[field]
    ELSE default

\* C13 (as stated): an account made by create_user or the creation form reads
\* back with the role given at creation, is_staff and is_superuser unset, and
\* active.
C13_CreationRoundTrip ==
    (last.op \in {"create_user", "user_create"} /\ last.created # 0) =>
        LET row == users[last.created] IN
        /\ Exists(users, last.created)
        /\ row.role = Told("role", "USER")
        /\ ~row.is_staff
        /\ ~row.is_superuser
        /\ row.is_active

\* C13 (amended): an account made by create_user or the creation form reads
\* back with the role given at creation (USER if create_user was given
\* none); it is active unless the creation said is_active = False, and
\* is_staff and is_superuser are unset unless the caller of create_user
\* named them; the form never sets them.
C13_CreationReadsBackWhatWasGiven ==
    (last.op \in {"create_user", "user_create"} /\ last.created # 0) =>
        LET row == users[last.created] IN
        /\ Exists(users, last.created)
        /\ row.role = Told("role", "USER")
        /\ row.is_active = Told("is_active", TRUE)
        /\ row.is_staff = Told("is_staff", FALSE)
        /\ row.is_superuser = Told("is_superuser", FALSE)
        /\ last.op = "user_create" => (~row.is_staff /\ ~row.is_superuser)

\* An account was created with role STAFF through the form and is there to
\* be fetched: STAFF, active, no elevated flag.
C13_Witness ==
    /\ last.op = "user_create"
    /\ last.created # 0
    /\ last.role = "STAFF"
    /\ users[last.created].exists
    /\ users[last.created].role = "STAFF"
    /\ users[last.created].is_active
    /\ ~users[last.created].is_staff

\* C16: an account that create_superuser, create_user or the creation form
\* creates with role ADMIN has is_staff and is_superuser set by the write
\* that creates it, and an account create_superuser creates has role ADMIN.
C16_AdminCreatedWithElevatedFlags ==
    (last.op \in {"create_superuser", "create_user", "user_create"} /\ last.created # 0) =>
        LET row == users[last.created] IN
        /\ row.role = "ADMIN" => (row.is_staff /\ row.is_superuser)
        /\ last.op = "create_superuser" => row.role = "ADMIN"

\* C17: no two accounts hold addresses that are equal when case is ignored.
C17_EmailUniqueIgnoringCase ==
    \A p, q \in DOMAIN users :
        (users[p].exists /\ users[q].exists /\ lower(users[p].email) = lower(users[q].email))
            => p = q

\* ---------------------------------------------------------------------------
\* C14: on every routed path behind a per-view guard, and for every
\* authenticated requester, RoleBasedAccessMiddleware decides as the guard
\* does: it lets the request pass if and only if the requester's role is one
\* the view requires.
C14_MiddlewareAgreesWithGuards ==
    \A c \in Clients, op \in GuardedOps, pk \in Ids :
        get_user(c) # Anonymous =>
            (RoleBasedAccessMiddleware(PathOf(op, pk), get_user(c)) = "pass"
                <=> users[get_user(c)].role \in RequiredRoles(op))

\* C15: two writes of one account's last_login are more than one hour apart:
\* a step that moves a last_login that was set moves it by more than an hour.
C15_LastLoginWrittenOncePerHour ==
    [][\A pk \in Ids :
          (/\ users[pk].exists /\ users'[pk].exists
           /\ users[pk].last_login # None
           /\ users'[pk].last_login # users[pk].last_login) =>
              users'[pk].last_login - users[pk].last_login > OneHour]_vars

\* C18: after a write to a row its updated_at is the time of the write: a
\* step that changes a row leaves the row's updated_at at now.
C18_UpdatedAtOnEveryWrite ==
    [][\A pk \in Ids :
          (users'[pk].exists /\ users'[pk] # users[pk]) => users'[pk].updated_at = now]_vars

\* ---------------------------------------------------------------------------
\* Deletes and status toggles by active ADMINs, each in two steps.
AdminDeleteLoad ==
    \E c \in Clients, pk \in Ids : IsActiveAdmin(get_user(c)) /\ user_delete_load(c, pk)

AdminToggleStatusLoad ==
    \E c \in Clients, pk \in Ids : IsActiveAdmin(get_user(c)) /\ user_toggle_status_load(c, pk)

UserDeleteDelete == \E c \in Clients : user_delete_delete(c)

UserToggleStatusSave == \E c \in Clients : user_toggle_status_save(c)

NextRace ==
    SignIn \/ AdminDeleteLoad \/ UserDeleteDelete \/ AdminToggleStatusLoad \/ UserToggleStatusSave

SpecRace == InitWithAdmin /\ [][NextRace]_vars

\* C19: under every interleaving of the two steps of user_delete and
\* user_toggle_status requests of different ADMINs, at least one active ADMIN
\* account is left.
C19_ActiveAdminRemainsUnderInterleaving == Cardinality(get_admins(users)) >= 1

\* ---------------------------------------------------------------------------
\* A profile self-update or a status toggle in two steps, next to the edits
\* of an administrator.
\* The browsers whose requests are followed step by step; the last browser's
\* requests run between their steps.
Slow == Clients \ {NumClients}

\* The profile form posted with a new first name.
ProfileUpdateLoad ==
    \E c \in Slow : profile_update_load(c, [NoData EXCEPT !.first_name = Ann])

ProfileUpdateSave == \E c \in Clients : profile_update_save(c)

UserToggleStatusLoad == \E c \in Slow, pk \in Ids : user_toggle_status_load(c, pk)

\* The edit form of an account, posted from the last browser.
UserUpdatePost ==
    \E pk \in Ids, d \in AdminFormData :
        Req(NumClients, "user_update", pk, "POST", Prefilled(users[pk], d))

NextLostUpdate ==
    \/ SignIn \/ UserUpdatePost
    \/ ProfileUpdateLoad \/ ProfileUpdateSave
    \/ UserToggleStatusLoad \/ UserToggleStatusSave

SpecLostUpdate == Init /\ [][NextLostUpdate]_vars

\* The step is the write of client c's request for view op.
IsWrite(c, op) == inflight[c].op = op /\ inflight'[c] = Idle

\* C20: the save of a profile self-update leaves the stored role and active
\* flag as the last committed edit set them, and the save of a status toggle
\* leaves the stored role so, whatever was committed since the request
\* loaded the record.
C20_PartialUpdateKeepsOtherFields ==
    [][\A c \in Clients :
          /\ IsWrite(c, "profile_update") =>
                /\ users'[inflight[c].pk].role = users[inflight[c].pk].role
                /\ users'[inflight[c].pk].is_active = users[inflight[c].pk].is_active
          /\ IsWrite(c, "user_toggle_status") =>
                users'[inflight[c].pk].role = users[inflight[c].pk].role]_vars

\* ---------------------------------------------------------------------------
\* Every routed page asked for with GET, and the browser following the
\* redirects it is answered with.
RoutedOps ==
    {"home", "login", "logout", "profile_view", "profile_update",
     "dashboard_router", "admin_dashboard", "staff_dashboard", "user_dashboard"}
        \cup UserManagementOps

Get == \E c \in Clients, op \in RoutedOps, pk \in Ids : Req(c, op, pk, "GET", NoData)

NextRedirect == SignIn \/ Get \/ Follow

SpecRedirect == Init /\ [][NextRedirect]_vars

\* C21: the chain of redirects that starts at a routed request ends at a
\* response that is no redirect before the browser gives up: no chain
\* reaches MaxRedirects with a redirect still to follow, and the dashboard
\* the role router sends an authenticated user to renders for that user.
C21_RedirectsTerminate ==
    /\ [](~(last.code = 302 /\ last.redirects = MaxRedirects))
    /\ [][(last.op = "dashboard_router" /\ last.code = 302 /\ last.reached
            /\ last'.redirects = last.redirects + 1) => last'.code = 200]_vars

\* A STAFF account asked for an ADMIN page: turned to the router, sent on to
\* the staff dashboard, which rendered.
C21_Witness ==
    /\ last.op = "staff_dashboard"
    /\ last.code = 200
    /\ last.redirects = 2
    /\ get_user(last.c) # Anonymous
    /\ users[get_user(last.c)].role = "STAFF"

====
